---- MODULE Spec2Model ----
(***************************************************************************)
(* MT5Connector (src/mt5-connector.js): a WebSocket client that turns one  *)
(* duplex channel into a request/response API.  The model covers the       *)
(* transport (connect / disconnect / send), the reconnection controller    *)
(* (attemptReconnect and its timers), the dispatcher (handleMessage, on)   *)
(* the event bus (addEventListener, emit) and the correlator (sendMessage   *)
(* with its per-call timer).                                               *)
(*                                                                         *)
(* The event loop is single threaded: every action below is one callback   *)
(* or one synchronous public call, run to completion.                      *)
(***************************************************************************)
EXTENDS Integers, Sequences, FiniteSets, Bags, TLC

\* ------------------------------------------------------------------ bounds
MaxCalls == 2          \* sendMessage calls issued in one behaviour
MaxChannels == 2       \* WebSocket objects alive at the same time
MaxTimers == 1         \* reconnect timers pending at the same time
MaxRetries == 1        \* reconnect attempts explored while requests are issued
MaxListeners == 2      \* callbacks registered with addEventListener
MaxHeard == 1          \* invocations counted for one registered callback
MaxLogged == 1         \* errors logged by handleMessage in one behaviour
MaxTicks == 6          \* ticks of the clock in one behaviour

\* ------------------------------------------------------- program constants
maxReconnectAttempts == 5
reconnectDelay == 2000

\* this.ws is null (constructor, disconnect())
NullSocket == 0
\* this.ws still references a WebSocket whose close event has been delivered
ClosedSocket == -1

\* The WebSocket objects whose callbacks can still run are numbered by age,
\* oldest first; a socket leaves the numbering with its close event.
Channels == 1..MaxChannels

\* The command names the model issues.  Two of them share a reply type.
Actions == {"start_conversation", "answer_question", "get_market_analysis"}

\* A reply type is a string; action + '_response' is kept as the pair
\* (action, suffix) so that it is computed rather than looked up.
Literal(s) == [name |-> s, suffix |-> ""]
Concat(a, s) == [name |-> a, suffix |-> s]

ResponseTypeSuffixed(action) == Concat(action, "_response")

\* sendMessage, the responseType conditional chain
ResponseType(action) ==
    CASE action = "parse_strategy" -> Literal("strategy_parsed")
      [] action = "run_backtest" -> Literal("backtest_result")
      [] action = "load_template" -> Literal("template_loaded")
      [] action = "start_conversation" -> Literal("conversation_question")
      [] action = "answer_question" -> Literal("conversation_question")
      [] action = "generate_final_prompt" -> Literal("final_prompt")
      [] action = "optimize_strategy" -> Literal("optimization_suggestions")
      [] action = "find_confluences" -> Literal("confluences_found")
      [] action = "get_templates" -> Literal("templates_list")
      [] action = "get_strategies" -> Literal("strategies_list")
      [] action = "mtf_analysis" -> Literal("mtf_analysis_result")
      [] action = "get_recovery_plan" -> Literal("recovery_plan")
      [] OTHER -> Concat(action, "_response")

\* The commands the conditional chain of sendMessage lists, and three it
\* does not list.
Listed ==
    {"parse_strategy", "run_backtest", "load_template", "start_conversation",
     "answer_question", "generate_final_prompt", "optimize_strategy",
     "find_confluences", "get_templates", "get_strategies", "mtf_analysis",
     "get_recovery_plan"}
Unlisted == {"evolve_strategy", "get_market_analysis", "get_account_data"}

\* The message types that occur on the wire in the model.
Types == {ResponseType(a) : a \in Listed \cup Unlisted}

DefaultTimeoutFlat(action) == 60000

\* sendMessage, defaultTimeout (milliseconds)
DefaultTimeout(action) ==
    CASE action = "run_backtest" -> 300000
      [] action = "parse_strategy" -> 120000
      [] action = "evolve_strategy" -> 180000
      [] OTHER -> 60000

\* The argument of sendMessage: requestTimeout is 0 when the field is
\* absent (undefined and 0 are both falsy).
Command(action) == [action |-> action, requestTimeout |-> 0]
Overrides == {0, 240000}
Requests ==
    [action : Listed \cup Unlisted, requestTimeout : Overrides]

\* sendMessage: data.requestTimeout || defaultTimeout
Window(data) ==
    IF data.requestTimeout # 0 THEN data.requestTimeout
    ELSE DefaultTimeout(data.action)

\* One tick of the clock, in milliseconds.
Quantum == 60000

\* The type the page subscribes to at startup with on() and later requests
\* with sendMessage({action: 'get_market_analysis'}).
SubscribedTypes == {Concat("get_market_analysis", "_response")}

\* The names emit() is called with: the type of a parsed frame, and the
\* three lifecycle events of the transport.
Connected == Literal("connected")
Disconnected == Literal("disconnected")
Error == Literal("error")
Events == Types \cup {Connected, Disconnected, Error}

\* The data field of an inbound frame: -1 absent (undefined, which is
\* falsy), 1 a truthy value (an object such as {balance: 1000}).
DataVals == {-1, 1}
Truthy(d) == d > 0

\* handleMessage: message.data || message
Payload(m) ==
    IF Truthy(m.data) THEN [whole |-> FALSE, data |-> m.data]
    ELSE [whole |-> TRUE, data |-> m.data]

\* The value of a promise that has not been resolved.
Undefined == [whole |-> FALSE, data |-> -1]

\* Entries of messageHandlers: a persistent handler given to on() by a
\* feature module, or the one-shot closure sendMessage call c registers.
NoHandler == 0
Subscription == -1
\* a persistent handler that throws when it is called
Faulty == -2
Waiter(c) == c

VARIABLES
    ws,                 \* this.ws
    connected,          \* this.connected
    reconnectAttempts,  \* this.reconnectAttempts
    messageHandlers,    \* this.messageHandlers, per type
    chan,               \* readyState of each live WebSocket object, by age
    timers,             \* pending setTimeout callbacks of attemptReconnect, by delay
    calls,              \* the sendMessage calls issued so far
    wire,               \* commands the peer has received and not answered
    scheduled,          \* reconnect attempts scheduled since the last open
    eventListeners,     \* this.eventListeners, per event, in registration order
    errorLog,           \* errors handleMessage has caught and logged
    failed,             \* showError of attemptReconnect shown, no connect() since
    now,                \* the clock of the event loop, in milliseconds
    request,            \* the command the page passes to sendMessage
    awaited,            \* the promise of the page's latest connect() call
    service,            \* the fields of the MT5Service instance
    serviceChan,        \* readyState of each live WebSocket of the service, by age
    serviceTimers,      \* pending setTimeout callbacks of its attemptReconnect
    serviceCalls,       \* the sendAndWait calls issued so far
    serviceWire         \* commands the local server has received and not answered

connector == <<ws, connected, reconnectAttempts, messageHandlers, chan,
               timers, calls, wire, scheduled, eventListeners, errorLog,
               failed>>
local == <<service, serviceChan, serviceTimers, serviceCalls, serviceWire>>
page == <<now, request, local>>
vars == <<connector, page, awaited>>

\* constructor
Constructed ==
    /\ ws = NullSocket
    /\ connected = FALSE
    /\ reconnectAttempts = 0
    /\ messageHandlers = [t \in Types |-> NoHandler]
    /\ chan = <<>>
    /\ timers = EmptyBag
    /\ calls = <<>>
    /\ wire = {}
    /\ scheduled = 0
    /\ eventListeners = [e \in Events |-> <<>>]
    /\ errorLog = <<>>
    /\ failed = FALSE
    /\ now = 0
    /\ awaited = [socket |-> NullSocket, state |-> "none"]
    /\ service = [ws |-> NullSocket, connected |-> FALSE,
                  reconnectAttempts |-> 0, pendingRequests |-> {},
                  requestId |-> 0]
    /\ serviceChan = <<>>
    /\ serviceTimers = EmptyBag
    /\ serviceCalls = <<>>
    /\ serviceWire = {}

\* The page issues the commands the actions name.
Init == Constructed /\ request = Command("get_market_analysis")

\* The page issues one command, chosen among the listed and the unlisted
\* ones, with or without a requestTimeout.
InitRequest == Constructed /\ request \in Requests

\* ----------------------------------------------------------------- promise
\* A promise keeps its first settlement; later resolve/reject calls are
\* counted but do not change it.
Settle(call, s) == IF call.state = "pending" THEN s ELSE call.state

Resolve(call, m) ==
    [call EXCEPT !.state = Settle(call, "resolved"),
                 !.resolves = @ + 1,
                 !.result = IF call.state = "pending" THEN Payload(m) ELSE @]

Reject(call, why) ==
    [call EXCEPT !.state = Settle(call, why), !.rejects = @ + 1]

ClearTimeout(call) == [call EXCEPT !.timer = FALSE]

\* --------------------------------------------------------------- event bus
\* A callback given to addEventListener: whether it throws when it is
\* called, and how many times emit() has called it.
Listener(throws) == [throws |-> throws, n |-> 0]

Registered ==
    Cardinality({p \in Events \X (1..MaxListeners) :
                    p[2] <= Len(eventListeners[p[1]])})

\* emit(event): forEach calls the callbacks in registration order and is
\* left by the first exception, so the callbacks behind a throwing one are
\* not called.
Invoked(e) ==
    {i \in 1..Len(eventListeners[e]) :
        \A j \in 1..(i - 1) : ~eventListeners[e][j].throws}

EmitThrows(e) == \E i \in 1..Len(eventListeners[e]) : eventListeners[e][i].throws

CanHear(e) == \A i \in Invoked(e) : eventListeners[e][i].n < MaxHeard

Emit(e) ==
    eventListeners' =
        [eventListeners EXCEPT ![e] =
            [i \in 1..Len(@) |->
                IF i \in Invoked(e) THEN [@[i] EXCEPT !.n = @ + 1] ELSE @[i]]]

\* addEventListener(event, callback)
AddEventListener(e, throws) ==
    /\ Registered < MaxListeners
    /\ eventListeners' =
           [eventListeners EXCEPT ![e] = Append(@, Listener(throws))]
    /\ UNCHANGED <<ws, connected, reconnectAttempts, messageHandlers, chan,
                   timers, calls, wire, scheduled, errorLog, failed>>
    /\ UNCHANGED <<page, awaited>>

\* --------------------------------------------------------------- transport
Live == 1..Len(chan)

\* new WebSocket(url) inside connect(); this.ws is overwritten, the previous
\* socket is neither closed nor detached from its callbacks.
OpenSocket ==
    /\ Len(chan) < MaxChannels
    /\ chan' = Append(chan, "connecting")
    /\ ws' = Len(chan) + 1

\* connect() called by the application
Connect ==
    /\ OpenSocket
    /\ failed' = FALSE
    /\ UNCHANGED <<connected, reconnectAttempts, messageHandlers, timers,
                   calls, wire, scheduled, eventListeners, errorLog>>
    /\ UNCHANGED <<page, awaited>>

\* await mt5Connector.connect() at page startup: connect(), with the page
\* waiting for the promise it returns.
AwaitConnect ==
    /\ OpenSocket
    /\ failed' = FALSE
    /\ awaited' = [socket |-> Len(chan) + 1, state |-> "pending"]
    /\ UNCHANGED <<connected, reconnectAttempts, messageHandlers, timers,
                   calls, wire, scheduled, eventListeners, errorLog>>
    /\ UNCHANGED page

OpenedAny(k) ==
    IF awaited.state = "pending" /\ ~EmitThrows(Connected)
    THEN [awaited EXCEPT !.state = "resolved"]
    ELSE awaited

\* ws.onopen of socket k: resolve() of the promise whose executor created
\* socket k, reached when emit('connected') returns.
Opened(k) ==
    IF awaited.socket = k /\ ~EmitThrows(Connected)
    THEN [awaited EXCEPT !.state = "resolved"]
    ELSE awaited

\* await mt5Connector.connect() when new WebSocket(url) throws: the catch
\* block rejects the promise and this.ws keeps its value.
AwaitConnectThrows ==
    /\ awaited' = [socket |-> NullSocket, state |-> "rejected"]
    /\ failed' = FALSE
    /\ UNCHANGED <<ws, connected, reconnectAttempts, messageHandlers, chan,
                   timers, calls, wire, scheduled, eventListeners, errorLog>>
    /\ UNCHANGED page

OnOpenKeepsAttempts(k) ==
    /\ k \in Live
    /\ chan[k] = "connecting"
    /\ CanHear(Connected)
    /\ chan' = [chan EXCEPT ![k] = "open"]
    /\ connected' = TRUE
    /\ Emit(Connected)
    /\ UNCHANGED <<ws, messageHandlers, timers, calls, wire, errorLog,
                   failed, reconnectAttempts, scheduled>>
    /\ awaited' = Opened(k)
    /\ UNCHANGED page

\* ws.onopen
OnOpen(k) ==
    /\ k \in Live
    /\ chan[k] = "connecting"
    /\ CanHear(Connected)
    /\ chan' = [chan EXCEPT ![k] = "open"]
    /\ connected' = TRUE
    /\ reconnectAttempts' = 0
    /\ scheduled' = 0
    /\ Emit(Connected)
    /\ UNCHANGED <<ws, messageHandlers, timers, calls, wire, errorLog,
                   failed>>
    /\ awaited' = Opened(k)
    /\ UNCHANGED page

\* ws.onerror
OnError(k) ==
    /\ k \in Live
    /\ chan[k] \in {"connecting", "open"}
    /\ CanHear(Error)
    /\ Emit(Error)
    /\ UNCHANGED <<ws, connected, reconnectAttempts, messageHandlers, chan,
                   timers, calls, wire, scheduled, errorLog, failed>>
    /\ UNCHANGED <<page, awaited>>

ReconnectExhaustedOffByOne == reconnectAttempts > maxReconnectAttempts

\* attemptReconnect: the guard
ReconnectExhausted == reconnectAttempts >= maxReconnectAttempts

DelayDoubledEarly(n) == reconnectDelay * 2^n

\* attemptReconnect: reconnectDelay * Math.pow(2, reconnectAttempts - 1),
\* computed after the increment
Delay(n) == reconnectDelay * 2^(n - 1)

\* attemptReconnect
AttemptReconnect ==
    IF ReconnectExhausted
    THEN /\ failed' = TRUE
         /\ UNCHANGED <<reconnectAttempts, timers, scheduled>>
    ELSE /\ reconnectAttempts' = reconnectAttempts + 1
         /\ timers' = timers (+) SetToBag({Delay(reconnectAttempts + 1)})
         /\ scheduled' = scheduled + 1
         /\ UNCHANGED failed

\* The numbering once socket k has gone.
Renumber(j, k) == IF j > k THEN j - 1 ELSE j
Without(k) == [j \in 1..(Len(chan) - 1) |-> IF j < k THEN chan[j] ELSE chan[j + 1]]

OnCloseRejectsPending(k) ==
    /\ k \in Live
    /\ CanHear(Disconnected)
    /\ ReconnectExhausted \/ BagCardinality(timers) < MaxTimers
    /\ chan' = Without(k)
    /\ ws' = IF ws = k THEN ClosedSocket ELSE Renumber(ws, k)
    /\ connected' = FALSE
    /\ Emit(Disconnected)
    /\ IF EmitThrows(Disconnected)
       THEN UNCHANGED <<reconnectAttempts, timers, scheduled, failed>>
       ELSE AttemptReconnect
    /\ wire' = {[call |-> w.call, ch |-> Renumber(w.ch, k)] :
                   w \in {v \in wire : v.ch # k}}
    /\ calls' = [c \in 1..Len(calls) |->
                    IF calls[c].state = "pending"
                    THEN Reject(ClearTimeout(calls[c]), "closed")
                    ELSE calls[c]]
    /\ messageHandlers' =
           [t \in Types |-> IF messageHandlers[t] \in 1..Len(calls)
                            THEN NoHandler ELSE messageHandlers[t]]
    /\ UNCHANGED errorLog
    /\ awaited' = [awaited EXCEPT !.socket = IF @ = k THEN NullSocket
                                           ELSE Renumber(@, k)]
    /\ UNCHANGED page

\* ws.onclose: delivered for a socket that failed to open, was dropped by
\* the peer, or was closed with ws.close().  The commands the peer had not
\* answered on that socket are lost with it.  emit('disconnected') runs
\* before attemptReconnect(): a callback that throws leaves the handler.
OnClose(k) ==
    /\ k \in Live
    /\ CanHear(Disconnected)
    /\ ReconnectExhausted \/ BagCardinality(timers) < MaxTimers
    /\ chan' = Without(k)
    /\ ws' = IF ws = k THEN ClosedSocket ELSE Renumber(ws, k)
    /\ connected' = FALSE
    /\ Emit(Disconnected)
    /\ IF EmitThrows(Disconnected)
       THEN UNCHANGED <<reconnectAttempts, timers, scheduled, failed>>
       ELSE AttemptReconnect
    /\ wire' = {[call |-> w.call, ch |-> Renumber(w.ch, k)] :
                   w \in {v \in wire : v.ch # k}}
    /\ UNCHANGED <<messageHandlers, calls, errorLog>>
    /\ awaited' = [awaited EXCEPT !.socket = IF @ = k THEN NullSocket
                                           ELSE Renumber(@, k)]
    /\ UNCHANGED page

\* the setTimeout callback of attemptReconnect
ReconnectTimer ==
    /\ \E d \in BagToSet(timers) : timers' = timers (-) SetToBag({d})
    /\ OpenSocket
    /\ UNCHANGED <<connected, reconnectAttempts, messageHandlers, calls,
                   wire, scheduled, eventListeners, errorLog, failed>>
    /\ UNCHANGED <<page, awaited>>

\* disconnect()
Disconnect ==
    /\ IF ws # NullSocket
       THEN /\ chan' = IF ws \in Live
                       THEN [chan EXCEPT ![ws] = "closing"]
                       ELSE chan
            /\ ws' = NullSocket
            /\ connected' = FALSE
       ELSE UNCHANGED <<chan, ws, connected>>
    /\ UNCHANGED <<reconnectAttempts, messageHandlers, timers, calls, wire,
                   scheduled, eventListeners, errorLog, failed>>
    /\ UNCHANGED <<page, awaited>>

\* send(): TRUE when it returns true.  WebSocket.send throws on a socket
\* that is still connecting and silently discards the frame on a closing or
\* closed one.
SendOk ==
    /\ connected
    /\ ws # NullSocket
    /\ ~(ws \in Live /\ chan[ws] = "connecting")

\* send(): TRUE when the frame reaches the peer
FrameWritten == SendOk /\ ws \in Live /\ chan[ws] = "open"

\* -------------------------------------------------------------- dispatcher
SetKeepsFirst(t, h) ==
    IF messageHandlers[t] = NoHandler
    THEN [messageHandlers EXCEPT ![t] = h]
    ELSE messageHandlers

\* this.messageHandlers.set(type, handler): the table after on(type, handler)
Set(t, h) == [messageHandlers EXCEPT ![t] = h]

\* on(type, handler) called by a feature module
On(t, h) ==
    /\ messageHandlers' = Set(t, h)
    /\ UNCHANGED <<ws, connected, reconnectAttempts, chan, timers, calls,
                   wire, scheduled, eventListeners, errorLog, failed>>
    /\ UNCHANGED <<page, awaited>>

WaiterBodyKeepsTimer(c, t, m) ==
    /\ calls' = [calls EXCEPT ![c] = Resolve(@, m)]
    /\ messageHandlers' = [messageHandlers EXCEPT ![t] = NoHandler]

WaiterBodyKeepsEntry(c, t, m) ==
    /\ calls' = [calls EXCEPT ![c] = Resolve(ClearTimeout(@), m)]
    /\ UNCHANGED messageHandlers

\* The closure sendMessage registers with this.on(responseType, ...)
WaiterBody(c, t, m) ==
    /\ calls' = [calls EXCEPT ![c] = Resolve(ClearTimeout(@), m)]
    /\ messageHandlers' = [messageHandlers EXCEPT ![t] = NoHandler]

\* What the catch block of handleMessage logs: the SyntaxError of
\* JSON.parse, or whatever a callback has thrown.
SyntaxError == "SyntaxError"
Thrown == "thrown"

\* handleMessage: TRUE when the catch block runs for the parsed frame m,
\* because a callback of emit() or the registered handler has thrown.
Caught(m) == EmitThrows(m.type) \/ messageHandlers[m.type] = Faulty

\* handleMessage for a well-formed frame m: emit(type, payload), then the
\* registered handler, both inside one try block.
HandleMessage(m) ==
    LET h == messageHandlers[m.type]
    IN /\ CanHear(m.type)
       /\ Caught(m) => Len(errorLog) < MaxLogged
       /\ Emit(m.type)
       /\ errorLog' = IF Caught(m) THEN Append(errorLog, Thrown)
                      ELSE errorLog
       /\ IF ~EmitThrows(m.type) /\ h \in 1..Len(calls)
          THEN WaiterBody(h, m.type, m)
          ELSE UNCHANGED <<calls, messageHandlers>>

\* The frames the peer can send on channel k: the answer to a command it
\* received on k (re names the call whose command it answers), or a message
\* nobody asked for (re = 0).
ReplyTo(w, d) ==
    [type |-> calls[w.call].type, data |-> d, re |-> w.call]
Push(t, d) == [type |-> t, data |-> d, re |-> 0]

\* ws.onmessage of socket k, answering command w
OnReply(k, w, d) ==
    /\ k \in Live
    /\ chan[k] = "open"
    /\ w \in wire
    /\ w.ch = k
    /\ wire' = wire \ {w}
    /\ HandleMessage(ReplyTo(w, d))
    /\ UNCHANGED <<ws, connected, reconnectAttempts, chan, timers,
                   scheduled, failed>>
    /\ UNCHANGED <<page, awaited>>

\* ws.onmessage of socket k, unsolicited message
OnPush(k, t, d) ==
    /\ k \in Live
    /\ chan[k] = "open"
    /\ HandleMessage(Push(t, d))
    /\ UNCHANGED <<ws, connected, reconnectAttempts, chan, timers, wire,
                   scheduled, failed>>
    /\ UNCHANGED <<page, awaited>>

OnMalformedDispatched(k) ==
    /\ k \in Live
    /\ chan[k] = "open"
    /\ Len(errorLog) < MaxLogged
    /\ errorLog' = Append(errorLog, SyntaxError)
    /\ \E t \in Types : CanHear(t) /\ Emit(t)
    /\ UNCHANGED <<ws, connected, reconnectAttempts, messageHandlers, chan,
                   timers, calls, wire, scheduled, failed>>
    /\ UNCHANGED <<page, awaited>>

\* ws.onmessage of socket k, the text is not JSON: JSON.parse throws as the
\* first statement of the try block and the catch block logs the error.
OnMalformed(k) ==
    /\ k \in Live
    /\ chan[k] = "open"
    /\ Len(errorLog) < MaxLogged
    /\ errorLog' = Append(errorLog, SyntaxError)
    /\ UNCHANGED <<ws, connected, reconnectAttempts, messageHandlers, chan,
                   timers, calls, wire, scheduled, eventListeners, failed>>
    /\ UNCHANGED <<page, awaited>>

\* -------------------------------------------------------------- correlator
\* type is the responseType the closures of the call capture.
NewCall(t) ==
    [type |-> t, state |-> "pending", timer |-> FALSE, due |-> 0,
     resolves |-> 0, rejects |-> 0, result |-> Undefined]

\* setTimeout(callback, delay): the callback may run once the clock has
\* reached due.
SetTimeout(call, delay) ==
    [call EXCEPT !.timer = TRUE, !.due = now + delay]

SendFailedKeepsTimer(call) == Reject(call, "send_failed")

\* sendMessage, the branch taken when send() returns false
SendFailed(call) == Reject(ClearTimeout(call), "send_failed")

\* sendMessage(data)
SendMessage(data) ==
    LET c == Len(calls) + 1
        t == ResponseType(data.action)
    IN /\ c <= MaxCalls
       /\ IF ~connected
          THEN /\ calls' = Append(calls,
                     Reject(NewCall(t), "not_connected"))
               /\ UNCHANGED <<messageHandlers, wire>>
          ELSE IF SendOk
          THEN /\ calls' = Append(calls, SetTimeout(NewCall(t), Window(data)))
               /\ messageHandlers' = Set(t, Waiter(c))
               /\ wire' = IF FrameWritten
                          THEN wire \cup {[call |-> c, ch |-> ws]}
                          ELSE wire
          ELSE /\ calls' = Append(calls,
                     SendFailed(SetTimeout(NewCall(t), Window(data))))
               /\ messageHandlers' = [messageHandlers EXCEPT ![t] = NoHandler]
               /\ UNCHANGED wire
       /\ UNCHANGED <<ws, connected, reconnectAttempts, chan, timers,
                      scheduled, eventListeners, errorLog, failed>>
       /\ UNCHANGED <<page, awaited>>

\* The clock advances by one tick; a timer that is due runs before the
\* clock passes it.
Tick ==
    /\ now < MaxTicks * Quantum
    /\ \A c \in 1..Len(calls) : calls[c].timer => now + Quantum <= calls[c].due
    /\ now' = now + Quantum
    /\ UNCHANGED <<connector, request, awaited, local>>

\* The event loop runs the timer of call c only when it is due.
Due(c) == c \in 1..Len(calls) /\ now >= calls[c].due

RequestTimeoutKeepsEntry(c) ==
    /\ c \in 1..Len(calls)
    /\ calls[c].timer
    /\ calls' = [calls EXCEPT ![c] = Reject(ClearTimeout(@), "timeout")]
    /\ UNCHANGED <<ws, connected, reconnectAttempts, chan, timers, wire,
                   scheduled, messageHandlers, eventListeners, errorLog,
                   failed>>
    /\ UNCHANGED <<page, awaited>>

\* the setTimeout callback of sendMessage call c
RequestTimeout(c) ==
    /\ c \in 1..Len(calls)
    /\ calls[c].timer
    /\ calls' = [calls EXCEPT ![c] = Reject(ClearTimeout(@), "timeout")]
    /\ messageHandlers' =
           [messageHandlers EXCEPT ![calls[c].type] = NoHandler]
    /\ UNCHANGED <<ws, connected, reconnectAttempts, chan, timers, wire,
                   scheduled, eventListeners, errorLog, failed>>
    /\ UNCHANGED <<page, awaited>>

\* -------------------------------------------------------------- MT5Service
\* The second client of the file, for the local server: requests are
\* correlated by a request_id instead of by the message type.
ServiceLive == 1..Len(serviceChan)
ServiceWithout(k) ==
    [j \in 1..(Len(serviceChan) - 1) |->
        IF j < k THEN serviceChan[j] ELSE serviceChan[j + 1]]

\* MT5Service.connect(): this.ws = new WebSocket(LOCAL_WS_URL)
ServiceOpenSocket ==
    /\ Len(serviceChan) < MaxChannels
    /\ serviceChan' = Append(serviceChan, "connecting")
    /\ service' = [service EXCEPT !.ws = Len(serviceChan) + 1]

\* MT5Service.connect() called by the application
ServiceConnect ==
    /\ ServiceOpenSocket
    /\ UNCHANGED <<serviceTimers, serviceCalls, serviceWire>>
    /\ UNCHANGED <<connector, now, request, awaited>>

\* MT5Service ws.onopen
ServiceOnOpen(k) ==
    /\ k \in ServiceLive
    /\ serviceChan[k] = "connecting"
    /\ serviceChan' = [serviceChan EXCEPT ![k] = "open"]
    /\ service' = [service EXCEPT !.connected = TRUE,
                                  !.reconnectAttempts = 0]
    /\ UNCHANGED <<serviceTimers, serviceCalls, serviceWire>>
    /\ UNCHANGED <<connector, now, request, awaited>>

\* MT5Service.attemptReconnect: Math.min(1000 * 2^attempts, 30000)
ServiceDelay(n) == IF 1000 * 2^n < 30000 THEN 1000 * 2^n ELSE 30000

ServiceExhausted == service.reconnectAttempts >= maxReconnectAttempts

\* MT5Service ws.onclose: connected = false, emit('disconnected') with no
\* listener registered, attemptReconnect()
ServiceOnClose(k) ==
    /\ k \in ServiceLive
    /\ ServiceExhausted \/ BagCardinality(serviceTimers) < MaxTimers
    /\ serviceChan' = ServiceWithout(k)
    /\ service' =
          [service EXCEPT
              !.ws = IF @ = k THEN ClosedSocket ELSE Renumber(@, k),
              !.connected = FALSE,
              !.reconnectAttempts = IF ServiceExhausted THEN @ ELSE @ + 1]
    /\ serviceTimers' =
          IF ServiceExhausted THEN serviceTimers
          ELSE serviceTimers
                 (+) SetToBag({ServiceDelay(service.reconnectAttempts + 1)})
    /\ serviceWire' = {[id |-> w.id, ch |-> Renumber(w.ch, k)] :
                          w \in {v \in serviceWire : v.ch # k}}
    /\ UNCHANGED serviceCalls
    /\ UNCHANGED <<connector, now, request, awaited>>

\* the setTimeout callback of MT5Service.attemptReconnect
ServiceReconnectTimer ==
    /\ \E d \in BagToSet(serviceTimers) :
          serviceTimers' = serviceTimers (-) SetToBag({d})
    /\ ServiceOpenSocket
    /\ UNCHANGED <<serviceCalls, serviceWire>>
    /\ UNCHANGED <<connector, now, request, awaited>>

\* MT5Service.disconnect()
ServiceDisconnect ==
    /\ IF service.ws # NullSocket
       THEN /\ serviceChan' =
                  IF service.ws \in ServiceLive
                  THEN [serviceChan EXCEPT ![service.ws] = "closing"]
                  ELSE serviceChan
            /\ service' = [service EXCEPT !.ws = NullSocket,
                                          !.connected = FALSE]
       ELSE UNCHANGED <<serviceChan, service>>
    /\ UNCHANGED <<serviceTimers, serviceCalls, serviceWire>>
    /\ UNCHANGED <<connector, now, request, awaited>>

\* MT5Service.send(): what the call does.  It returns false without
\* writing when the flag is false or this.ws is null; this.ws.send() is not
\* guarded, so it throws on a socket that is still connecting, and it
\* discards the frame on a closing or closed one.
ServiceSend ==
    IF ~service.connected \/ service.ws = NullSocket THEN "false"
    ELSE IF service.ws \in ServiceLive /\ serviceChan[service.ws] = "connecting"
    THEN "threw"
    ELSE IF service.ws \in ServiceLive /\ serviceChan[service.ws] = "open"
    THEN "written"
    ELSE "discarded"

ServiceNewCall(id, sent) ==
    [id |-> id, state |-> "pending", timer |-> TRUE, sent |-> sent,
     resolves |-> 0, rejects |-> 0, result |-> 0]

\* resolve(data) of a sendAndWait promise; the frame carries request_id r
ServiceResolve(call, r) ==
    [call EXCEPT !.state = Settle(call, "resolved"),
                 !.resolves = @ + 1,
                 !.result = IF call.state = "pending" THEN r ELSE @]

SendAndWaitRejectsUnsent ==
    LET id == service.requestId + 1
    IN /\ id <= MaxCalls
       /\ service' =
             [service EXCEPT
                 !.requestId = id,
                 !.pendingRequests =
                     IF ServiceSend = "false" THEN @ ELSE @ \cup {id}]
       /\ serviceCalls' =
             Append(serviceCalls,
                    IF ServiceSend = "false"
                    THEN [Reject(ServiceNewCall(id, ServiceSend), "not_connected")
                             EXCEPT !.timer = FALSE]
                    ELSE IF ServiceSend = "threw"
                    THEN Reject(ServiceNewCall(id, ServiceSend), "send_threw")
                    ELSE ServiceNewCall(id, ServiceSend))
       /\ serviceWire' =
             IF ServiceSend = "written"
             THEN serviceWire \cup {[id |-> id, ch |-> service.ws]}
             ELSE serviceWire
       /\ UNCHANGED <<serviceChan, serviceTimers>>
       /\ UNCHANGED <<connector, now, request, awaited>>

\* MT5Service.sendAndWait(action, data): the executor takes the next
\* identifier, starts the timer, registers the pending request and calls
\* send(), whose result it ignores; an exception of send() leaves the
\* executor and rejects the promise, with the entry and the timer in place.
SendAndWait ==
    LET id == service.requestId + 1
    IN /\ id <= MaxCalls
       /\ service' = [service EXCEPT !.requestId = id,
                                     !.pendingRequests = @ \cup {id}]
       /\ serviceCalls' =
             Append(serviceCalls,
                    IF ServiceSend = "threw"
                    THEN Reject(ServiceNewCall(id, ServiceSend), "send_threw")
                    ELSE ServiceNewCall(id, ServiceSend))
       /\ serviceWire' =
             IF ServiceSend = "written"
             THEN serviceWire \cup {[id |-> id, ch |-> service.ws]}
             ELSE serviceWire
       /\ UNCHANGED <<serviceChan, serviceTimers>>
       /\ UNCHANGED <<connector, now, request, awaited>>

\* The sendAndWait call that was issued with identifier r.
IssuedWith(r) == CHOOSE c \in 1..Len(serviceCalls) : serviceCalls[c].id = r

ServiceHandleMessageOldest(r) ==
    IF service.pendingRequests # {}
    THEN LET o == CHOOSE i \in service.pendingRequests :
                      \A j \in service.pendingRequests : i <= j
         IN /\ service' = [service EXCEPT !.pendingRequests = @ \ {o}]
            /\ serviceCalls' =
                  [serviceCalls EXCEPT ![IssuedWith(o)] =
                      ServiceResolve(ClearTimeout(@), r)]
    ELSE UNCHANGED <<service, serviceCalls>>

\* MT5Service.handleMessage for a frame that carries request_id r: the
\* pending request r, if there is one, is removed and resolved; otherwise
\* the frame goes to the handlers and listeners, none of which is
\* registered.
ServiceHandleMessage(r) ==
    IF r \in service.pendingRequests
    THEN /\ service' = [service EXCEPT !.pendingRequests = @ \ {r}]
         /\ serviceCalls' =
               [serviceCalls EXCEPT ![IssuedWith(r)] =
                   ServiceResolve(ClearTimeout(@), r)]
    ELSE UNCHANGED <<service, serviceCalls>>

\* MT5Service ws.onmessage of socket k: the local server answers command w
\* and echoes its request_id.
ServiceOnReply(k, w) ==
    /\ k \in ServiceLive
    /\ serviceChan[k] = "open"
    /\ w \in serviceWire
    /\ w.ch = k
    /\ serviceWire' = serviceWire \ {w}
    /\ ServiceHandleMessage(w.id)
    /\ UNCHANGED <<serviceChan, serviceTimers>>
    /\ UNCHANGED <<connector, now, request, awaited>>

\* the setTimeout callback of sendAndWait call c
ServiceRequestTimeout(c) ==
    /\ c \in 1..Len(serviceCalls)
    /\ serviceCalls[c].timer
    /\ service' = [service EXCEPT
                      !.pendingRequests = @ \ {serviceCalls[c].id}]
    /\ serviceCalls' =
          [serviceCalls EXCEPT ![c] = Reject(ClearTimeout(@), "timeout")]
    /\ UNCHANGED <<serviceChan, serviceTimers, serviceWire>>
    /\ UNCHANGED <<connector, now, request, awaited>>

\* ------------------------------------------------------------ specification
\* Requests are explored during the first MaxRetries reconnect attempts that
\* follow a successful open; the reconnection controller on its own is
\* explored in full by ConnSpec.
Explored == reconnectAttempts <= MaxRetries

Next ==
    \/ Connect
    \/ \E k \in Channels : OnOpen(k)
    \/ \E k \in Channels : OnClose(k) /\ Explored'
    \/ ReconnectTimer
    \/ Disconnect
    \/ \E t \in SubscribedTypes : On(t, Subscription)
    \/ \E k \in Channels, w \in wire, d \in DataVals : OnReply(k, w, d)
    \/ \E k \in Channels, t \in SubscribedTypes, d \in DataVals :
          OnPush(k, t, d)
    \/ \E a \in Actions : SendMessage(Command(a))
    \/ \E c \in 1..MaxCalls : RequestTimeout(c)
    \/ \E k \in Channels : OnError(k)
    \/ \E k \in Channels : OnMalformed(k)
    \/ \E e \in SubscribedTypes \cup {Error}, throws \in BOOLEAN :
          AddEventListener(e, throws)

Spec == Init /\ [][Next]_vars

\* The request side under every use of connect(): disconnect(), which no
\* module of the repository calls, is left to ConnSpec.
NextReq ==
    \/ Connect
    \/ \E k \in Channels : OnOpen(k)
    \/ \E k \in Channels : OnClose(k) /\ Explored'
    \/ ReconnectTimer
    \/ \E t \in SubscribedTypes : On(t, Subscription)
    \/ \E k \in Channels, w \in wire, d \in DataVals : OnReply(k, w, d)
    \/ \E k \in Channels, t \in SubscribedTypes, d \in DataVals :
          OnPush(k, t, d)
    \/ \E a \in Actions : SendMessage(Command(a))
    \/ \E c \in 1..MaxCalls : RequestTimeout(c)

ReqSpec == Init /\ [][NextReq]_vars

\* The calls of sendMessage on their own: every use of connect(), the peer
\* answering the commands it received with a payload, and no handler
\* registered with on().
NextCall ==
    \/ Connect
    \/ \E k \in Channels : OnOpen(k)
    \/ \E k \in Channels : OnClose(k) /\ Explored'
    \/ ReconnectTimer
    \/ \E k \in Channels, w \in wire : OnReply(k, w, 1)
    \/ \E a \in Actions : SendMessage(Command(a))
    \/ \E c \in 1..MaxCalls : RequestTimeout(c)

CallSpec == Init /\ [][NextCall]_vars

\* The connector as the page drives it: connect() is called once, at
\* startup (DOMContentLoaded), and every later socket is opened by a
\* reconnect timer.
NextApp ==
    \/ ws = NullSocket /\ Connect
    \/ \E k \in Channels : OnOpen(k)
    \/ \E k \in Channels : OnClose(k) /\ Explored'
    \/ ReconnectTimer
    \/ \E t \in SubscribedTypes : On(t, Subscription)
    \/ \E k \in Channels, w \in wire, d \in DataVals : OnReply(k, w, d)
    \/ \E k \in Channels, t \in SubscribedTypes, d \in DataVals :
          OnPush(k, t, d)
    \/ \E a \in Actions : SendMessage(Command(a))
    \/ \E c \in 1..MaxCalls : RequestTimeout(c)

\* Timers of the event loop fire: an armed request timer is eventually run.
FairSpec ==
    /\ Init
    /\ [][NextApp]_vars
    /\ \A c \in 1..MaxCalls : WF_vars(RequestTimeout(c))

NextConn ==
    \/ Connect
    \/ \E k \in Channels : OnOpen(k)
    \/ \E k \in Channels : OnClose(k)
    \/ ReconnectTimer
    \/ Disconnect

\* The transport and the reconnection controller while no request is issued
\* and no frame arrives: none of the other actions changes their state.
ConnSpec == Init /\ [][NextConn]_vars

NextEvent ==
    \/ Connect
    \/ \E k \in Channels : OnOpen(k)
    \/ \E k \in Channels : OnClose(k)
    \/ \E k \in Channels : OnError(k)
    \/ ReconnectTimer
    \/ \E e \in {Error, Disconnected}, throws \in BOOLEAN :
          AddEventListener(e, throws)

\* The transport with callbacks listening to its lifecycle events.
EventSpec == Init /\ [][NextEvent]_vars

NextLife ==
    \/ ws = NullSocket /\ Connect
    \/ \E k \in Channels : OnOpen(k)
    \/ \E k \in Channels : OnClose(k)
    \/ ReconnectTimer
    \/ \E throws \in BOOLEAN : AddEventListener(Disconnected, throws)

\* The page's single connect() followed by the controller's own attempts,
\* with callbacks listening to 'disconnected'; the reconnect timers of the
\* event loop fire.
LifeSpec == Init /\ [][NextLife]_vars /\ WF_vars(ReconnectTimer)

NextService ==
    \/ ServiceConnect
    \/ \E k \in Channels : ServiceOnOpen(k)
    \/ \E k \in Channels :
          ServiceOnClose(k) /\ service'.reconnectAttempts <= MaxRetries
    \/ ServiceReconnectTimer
    \/ SendAndWait
    \/ \E k \in Channels, w \in serviceWire : ServiceOnReply(k, w)
    \/ \E c \in 1..MaxCalls : ServiceRequestTimeout(c)

\* MT5Service: every use of connect(), sendAndWait calls, the local server
\* answering the commands it received, and the request timers; as for the
\* connector, requests are explored during the first MaxRetries reconnect
\* attempts.
ServiceSpec == Init /\ [][NextService]_vars

NextPromise ==
    \/ awaited.state = "none" /\ AwaitConnect
    \/ awaited.state = "none" /\ AwaitConnectThrows
    \/ \E k \in Channels : OnOpen(k)
    \/ \E k \in Channels : OnClose(k)
    \/ \E k \in Channels : OnError(k)
    \/ ReconnectTimer
    \/ \E throws \in BOOLEAN : AddEventListener(Error, throws)

\* The promise connect() returns to the page at startup, across the
\* opening, the failure and the reconnection of its socket, with callbacks
\* listening to the error event.
PromiseSpec == Init /\ [][NextPromise]_vars

NextCommand ==
    \/ ws = NullSocket /\ Connect
    \/ \E k \in Channels : OnOpen(k)
    \/ SendMessage(request)
    \/ \E k \in Channels, w \in wire, d \in DataVals : OnReply(k, w, d)
    \/ Tick
    \/ \E c \in 1..MaxCalls : Due(c) /\ RequestTimeout(c)

\* One command, listed or not, with or without a requestTimeout, issued by
\* the page on its channel while the clock runs; timers fire when due.
CommandSpec == InitRequest /\ [][NextCommand]_vars

NextDrop ==
    \/ ws = NullSocket /\ Connect
    \/ \E k \in Channels : OnOpen(k)
    \/ \E k \in Channels : OnClose(k) /\ Explored'
    \/ \E k \in Channels : OnError(k)
    \/ ReconnectTimer
    \/ \E throws \in BOOLEAN : AddEventListener(Error, throws)
    \/ \E t \in SubscribedTypes : On(t, Subscription)
    \/ \E k \in Channels, w \in wire, d \in DataVals : OnReply(k, w, d)
    \/ \E k \in Channels, t \in SubscribedTypes, d \in DataVals :
          OnPush(k, t, d)
    \/ SendMessage(Command("get_market_analysis"))
    \/ \E c \in 1..MaxCalls : RequestTimeout(c)

\* Calls and subscriptions of one message type across transport errors,
\* closures and reconnections of the page's channel.
DropSpec == Init /\ [][NextDrop]_vars

NextDisp ==
    \/ ws = NullSocket /\ Connect
    \/ \E k \in Channels : OnOpen(k)
    \/ \E t \in SubscribedTypes, h \in {Subscription, Faulty} : On(t, h)
    \/ \E t \in SubscribedTypes, throws \in BOOLEAN :
          AddEventListener(t, throws)
    \/ \E k \in Channels, w \in wire, d \in DataVals : OnReply(k, w, d)
    \/ \E k \in Channels, t \in SubscribedTypes, d \in DataVals :
          OnPush(k, t, d)
    \/ \E k \in Channels : OnMalformed(k)
    \/ SendMessage(Command("get_market_analysis"))
    \/ \E c \in 1..MaxCalls : RequestTimeout(c)

\* The dispatcher on a channel that stays up, for the message type the page
\* both subscribes to and requests: callbacks listen to it, calls wait for
\* it, and well-formed and malformed frames arrive.
DispSpec == Init /\ [][NextDisp]_vars

\* ------------------------------------------------------------------ claims
CallIds == 1..Len(calls)
Pending(c) == calls[c].state = "pending"
Settled(c) == calls[c].state # "pending"
ImmediateRejection(c) == calls[c].state \in {"not_connected", "send_failed"}

\* A step in which the dispatcher handles the peer's answer to command w.
ReplyStep(w) ==
    /\ w \in wire
    /\ wire' = wire \ {w}
    /\ chan' = chan
    /\ Len(calls') = Len(calls)

\* A step in which the request timer of call c runs.
TimeoutStep(c) ==
    /\ c \in CallIds
    /\ Len(calls') = Len(calls)
    /\ calls[c].timer
    /\ ~calls'[c].timer
    /\ calls'[c].resolves = calls[c].resolves

\* A step in which sendMessage is called.
IssueStep == Len(calls') = Len(calls) + 1

\* b is the most recent call that waits for type t.
LastOfType(b, t) ==
    /\ b \in CallIds
    /\ calls[b].type = t
    /\ \A c \in CallIds : calls[c].type = t => c <= b

SettledAtMostOnce ==
    \A c \in CallIds :
        /\ calls[c].resolves + calls[c].rejects <= 1
        /\ Pending(c) <=> calls[c].resolves + calls[c].rejects = 0
        /\ calls[c].state = "resolved" <=> calls[c].resolves = 1

EventuallySettled ==
    \A c \in 1..MaxCalls :
        (c <= Len(calls)) ~> (c <= Len(calls) /\ Settled(c))

\* C1: every sendMessage promise is settled exactly once: resolve() and
\* reject() are invoked at most once between them for each call, in every
\* reachable state, and every issued call is eventually settled.
C1_SettledExactlyOnce == []SettledAtMostOnce /\ EventuallySettled

\* C1 witness: one call resolved by a reply and another rejected by its own
\* timer in the same behaviour.
C1_Witness ==
    \E a, b \in CallIds :
        /\ calls[a].state = "resolved" /\ calls[a].resolves = 1
        /\ calls[b].state = "timeout" /\ calls[b].rejects = 1

\* C2: of two calls outstanding at once for the same reply type, the second
\* one's waiter replaces the first one's; a reply of that type resolves the
\* second (the most recent outstanding) call and no other; the first settles
\* only by its own timeout.  A most recent call that is pending without its
\* waiter in the table has lost it to another call of the same type.
C2_SecondCallResolves ==
    [][/\ \A a \in CallIds :
            (/\ IssueStep
             /\ Pending(a)
             /\ calls'[Len(calls')].state = "pending"
             /\ calls'[Len(calls')].type = calls[a].type
             /\ messageHandlers[calls[a].type] = Waiter(a))
            => messageHandlers'[calls[a].type] = Waiter(Len(calls'))
       /\ \A w \in wire, b \in CallIds :
            (/\ ReplyStep(w)
             /\ LastOfType(b, calls[w.call].type)
             /\ Pending(b)
             /\ messageHandlers[calls[b].type] # Subscription)
            => /\ calls'[b].state = "resolved"
               /\ \A a \in CallIds \ {b} : calls'[a].state = calls[a].state
       /\ \A a, b \in CallIds :
            (/\ a < b
             /\ calls[b].type = calls[a].type
             /\ calls[b].state # "not_connected"
             /\ Pending(a)
             /\ Len(calls') = Len(calls)
             /\ calls'[a].state # "pending")
            => calls'[a].state = "timeout"]_vars

\* C3: a call is never resolved by the peer's answer to the command of
\* another call.
C3_OwnReplyOnly ==
    [][\A w \in wire, c \in CallIds :
          (ReplyStep(w) /\ Pending(c) /\ calls'[c].state = "resolved")
          => w.call = c]_vars

\* C4: when a message of a call's reply type arrives before the call's
\* timeout, the call resolves with the data the message carries, its timer
\* is cancelled, and it is not rejected afterwards.
C4_MatchingReplyResolves ==
    [][/\ \A w \in wire, c \in CallIds :
            (ReplyStep(w) /\ Pending(c) /\ calls[c].type = calls[w.call].type)
            => /\ calls'[c].state = "resolved"
               /\ ~calls'[c].timer
               /\ Truthy(calls'[c].result.data) => ~calls'[c].result.whole
       /\ \A c \in CallIds :
            (Len(calls') = Len(calls) /\ calls[c].state = "resolved")
            => calls'[c].rejects = 0]_vars

\* C5: a pending call has its timer armed, and when the timer runs the call
\* is rejected with the timeout error and the waiter table has no entry for
\* the call's reply type.
C5_TimeoutRejectsAndClears ==
    /\ [](\A c \in CallIds : Pending(c) => calls[c].timer)
    /\ [][\A c \in CallIds :
             TimeoutStep(c)
             => /\ calls'[c].state = "timeout"
                /\ calls'[c].rejects = 1
                /\ messageHandlers'[calls[c].type] = NoHandler]_vars

\* C5 witness: a call rejected by its timer while no reply had arrived for
\* it, the table holding no entry for its type.
C5_Witness ==
    \E c \in CallIds :
        /\ calls[c].state = "timeout"
        /\ \E w \in wire : w.call = c
        /\ messageHandlers[calls[c].type] = NoHandler

C7_NoStaleWaiter ==
    \A t \in Types, c \in 1..MaxCalls :
        messageHandlers[t] = Waiter(c) => (c \in CallIds /\ Pending(c))

\* C7 witness: a call has been resolved and a call has timed out, while the
\* table holds the waiter of a call that is still pending.
C7_Witness ==
    /\ \E c \in CallIds : Settled(c) /\ ~ImmediateRejection(c)
    /\ \E t \in Types, c \in CallIds : messageHandlers[t] = Waiter(c)

\* C8: a handler registered with on() stays registered (the connector has no
\* operation that removes one), whatever sendMessage calls are made.
C8_SubscriptionStays ==
    [][\A t \in Types :
          messageHandlers[t] = Subscription
          => messageHandlers'[t] = Subscription]_vars

\* C9: the close event of a channel closed by disconnect() neither
\* increments the attempt counter nor starts a reconnect timer.
C9_DisconnectSuppressesReconnect ==
    [][\A k \in Live :
          (chan[k] = "closing" /\ chan' = Without(k))
          => /\ reconnectAttempts' = reconnectAttempts
             /\ timers' = timers]_vars

\* C10: the attempt counter stays within 0..maxReconnectAttempts and no more
\* than maxReconnectAttempts reconnections are scheduled between one open
\* and the next.
C10_AttemptsBounded ==
    /\ reconnectAttempts \in 0..maxReconnectAttempts
    /\ scheduled \in 0..maxReconnectAttempts

\* C10 witness: the budget is used up and a further closure has been taken
\* without scheduling anything (terminal failure).
C10_Witness ==
    /\ reconnectAttempts = maxReconnectAttempts
    /\ scheduled = maxReconnectAttempts
    /\ timers = EmptyBag
    /\ chan = <<>>

\* A step in which the close event of a socket is handled.
CloseStep == Len(chan') < Len(chan)

\* A step in which socket k opens.
OpenStep(k) ==
    /\ k \in Live
    /\ chan[k] = "connecting"
    /\ Len(chan') = Len(chan)
    /\ chan'[k] = "open"

\* A step in which a reconnection is scheduled.
ScheduleStep == BagCardinality(timers') > BagCardinality(timers)

BackoffTable == <<2000, 4000, 8000, 16000, 32000>>

\* C11: the n-th reconnection scheduled since the last open (n = 1..5) is
\* delayed by 2000 * 2^(n-1) ms, that is 2000, 4000, 8000, 16000, 32000,
\* and no pending reconnect timer has any other delay.
C11_BackoffDelays ==
    /\ [](\A d \in BagToSet(timers) :
            \E n \in 1..maxReconnectAttempts : d = BackoffTable[n])
    /\ [][ScheduleStep
          => /\ scheduled' \in 1..maxReconnectAttempts
             /\ timers' = timers (+) SetToBag({BackoffTable[scheduled']})
             /\ BackoffTable[scheduled'] = 2000 * 2^(scheduled' - 1)]_vars

\* C11 witness: the fifth reconnection since the last open is pending with
\* its delay of 32000 ms.
C11_Witness ==
    /\ scheduled = maxReconnectAttempts
    /\ BagIn(32000, timers)

\* C12: every step in which a channel opens sets the attempt counter to 0,
\* and the first closure after it schedules attempt 1 with the base delay.
C12_OpenResetsAttempts ==
    /\ [][\A k \in Live :
            OpenStep(k) => (reconnectAttempts' = 0 /\ connected')]_vars
    /\ [][(CloseStep /\ reconnectAttempts = 0)
            => /\ reconnectAttempts' = 1
               /\ timers' = timers (+) SetToBag({reconnectDelay})]_vars

\* C12 witness: a channel is open with the counter at 0 while a reconnect
\* timer of a later attempt than the first is still pending, so the open
\* followed at least two failed attempts.
C12_Witness ==
    /\ connected
    /\ reconnectAttempts = 0
    /\ \E k \in Live : chan[k] = "open"
    /\ \E d \in BagToSet(timers) : d > reconnectDelay

\* C13: a closure taken with the counter at maxReconnectAttempts schedules
\* nothing; from then on the controller opens no channel, so the connector
\* stays disconnected, until connect() is called from outside (the only
\* step that opens a socket and clears the failure); and an open that
\* follows such a connect() resets the controller.
C13_TerminalFailure ==
    /\ [][(CloseStep /\ ReconnectExhausted)
            => /\ timers' = timers
               /\ reconnectAttempts' = reconnectAttempts]_vars
    /\ [][(failed /\ failed') => Len(chan') <= Len(chan)]_vars
    /\ [][\A k \in Live :
            (OpenStep(k) /\ ~failed)
            => (connected' /\ reconnectAttempts' = 0 /\ ~failed')]_vars

\* C14: a closure that takes the controller into terminal failure (counter
\* at maxReconnectAttempts) calls every callback registered for 'error'.
C14_ErrorEventOnFailure ==
    [][(CloseStep /\ ReconnectExhausted /\ failed')
          => \A i \in 1..Len(eventListeners[Error]) :
                eventListeners'[Error][i].n = eventListeners[Error][i].n + 1]_vars

\* C15: at most one socket is open, that is, able to hand inbound frames to
\* handleMessage, whatever connect(), disconnect(), close events and
\* reconnect timers have happened.
C15_OneChannel == Cardinality({k \in Live : chan[k] = "open"}) <= 1

\* C16: send(), as sendMessage calls it with the connected flag set, returns
\* true (the call is left pending with its timer armed) only if the frame
\* was written to the open channel, and returns false (the call is rejected
\* on the spot), writing nothing and changing no connection state, whenever
\* the channel is not open.
C16_SendReportsWrite ==
    [][(IssueStep /\ connected)
          => LET c == Len(calls')
             IN /\ calls'[c].timer
                   => \E w \in wire' \ wire :
                         w.call = c /\ w.ch = ws /\ chan[ws] = "open"
                /\ ~(ws \in Live /\ chan[ws] = "open")
                   => /\ calls'[c].state = "send_failed"
                      /\ wire' = wire
                /\ UNCHANGED <<ws, connected, chan, reconnectAttempts,
                               timers>>]_vars

\* A step in which handleMessage logs the error e it has caught.
LogStep(e) ==
    /\ Len(errorLog') = Len(errorLog) + 1
    /\ errorLog'[Len(errorLog')] = e

\* A step in which emit() has called a callback registered for t.
HeardStep(t) ==
    /\ Len(eventListeners'[t]) = Len(eventListeners[t])
    /\ \E i \in 1..Len(eventListeners[t]) :
          eventListeners'[t][i].n # eventListeners[t][i].n

\* Every callback registered for t is called once in the step.
AllHeardOnce(t) ==
    /\ Len(eventListeners'[t]) = Len(eventListeners[t])
    /\ \A i \in 1..Len(eventListeners[t]) :
          eventListeners'[t][i].n = eventListeners[t][i].n + 1

\* C17: a frame that cannot be parsed is dropped: the step settles no call,
\* calls no callback, and leaves the handler table, the listeners and the
\* connection state as they were; and once such a frame has been dropped a
\* well-formed reply is dispatched as usual, to the callbacks and to the
\* waiter registered for its type.
C17_MalformedDropped ==
    /\ [][LogStep(SyntaxError)
            => UNCHANGED <<calls, messageHandlers, eventListeners, ws,
                           connected, chan, reconnectAttempts, timers,
                           wire>>]_vars
    /\ [][\A w \in wire, c \in CallIds :
            (/\ \E i \in 1..Len(errorLog) : errorLog[i] = SyntaxError
             /\ ReplyStep(w)
             /\ messageHandlers[calls[w.call].type] = Waiter(c)
             /\ ~EmitThrows(calls[w.call].type))
            => /\ calls'[c].state = "resolved"
               /\ AllHeardOnce(calls[w.call].type)]_vars

\* C17 witness: a frame has been dropped with a SyntaxError, a call has been
\* resolved by a reply and a registered callback has been called.
C17_Witness ==
    /\ \E i \in 1..Len(errorLog) : errorLog[i] = SyntaxError
    /\ \E c \in CallIds :
          /\ calls[c].state = "resolved"
          /\ Len(eventListeners[calls[c].type]) > 0
          /\ eventListeners[calls[c].type][1].n > 0

\* C18: when a callback throws while a frame of type t is dispatched, the
\* connection state is untouched (the exception stays inside
\* handleMessage), every callback registered for t is still called, and
\* the waiter registered for t still resolves its call.
C18_ExceptionsIsolated ==
    [][\A t \in Types :
          (LogStep(Thrown) /\ HeardStep(t))
          => /\ UNCHANGED <<ws, connected, chan, reconnectAttempts, timers>>
             /\ AllHeardOnce(t)
             /\ \A c \in CallIds :
                   messageHandlers[t] = Waiter(c)
                   => calls'[c].state = "resolved"]_vars

\* C19: when the reply to a command arrives and the table holds a waiter
\* for its type, that waiter's call is resolved with the payload, its timer
\* is cancelled and the waiter leaves the table; a persistent handler is
\* called only when the table holds no waiter for the type.
C19_WaiterPrecedence ==
    [][\A w \in wire, c \in CallIds :
          (ReplyStep(w) /\ messageHandlers[calls[w.call].type] = Waiter(c))
          => /\ calls'[c].state = "resolved"
             /\ calls'[c].result.whole = ~Truthy(calls'[c].result.data)
             /\ ~calls'[c].timer
             /\ messageHandlers'[calls[w.call].type] # Waiter(c)]_vars

\* C20: whenever a well-formed frame of type t is dispatched, every
\* callback registered with addEventListener(t, ...) is called exactly
\* once, whether or not a waiter or a persistent handler takes the frame.
C20_ListenersInvokedOnce ==
    [][\A t \in Types :
          (HeardStep(t) \/ \E w \in wire :
                              ReplyStep(w) /\ calls[w.call].type = t)
          => AllHeardOnce(t)]_vars

\* C21: a close event or an error event of a socket rejects no pending
\* call and leaves the handler table, waiters and subscriptions alike, as
\* it was; a call whose waiter was registered before the closure settles
\* only by a frame of its type (resolved) or by its own timer (timeout).
C21_ClosureKeepsWaiters ==
    /\ [][(CloseStep \/ HeardStep(Error))
            => /\ calls' = calls
               /\ messageHandlers' = messageHandlers]_vars
    /\ [][\A c \in CallIds :
            (Len(calls') = Len(calls) /\ Pending(c) /\ ~Pending(c)')
            => \/ /\ calls'[c].state = "resolved"
                  /\ messageHandlers[calls[c].type] = Waiter(c)
                  /\ \E k \in Live : chan[k] = "open"
               \/ /\ calls'[c].state = "timeout"
                  /\ calls[c].timer]_vars

\* C21 witness: the channel has closed and a reconnection is scheduled
\* while a call is pending with its waiter in the table and a resolved call
\* shows that frames do resolve waiters.
C21_Witness ==
    /\ ~connected
    /\ ws = ClosedSocket
    /\ timers # EmptyBag
    /\ \E c \in CallIds :
          Pending(c) /\ messageHandlers[calls[c].type] = Waiter(c)
    /\ \E c \in CallIds : calls[c].state = "resolved"

\* C22: every closure taken with the counter below maxReconnectAttempts
\* calls the callbacks registered for 'disconnected' and schedules a
\* reconnection, and a scheduled reconnection is eventually carried out by
\* its timer, without any call from outside.
C22_ReconnectsAfterClosure ==
    /\ [][(CloseStep /\ ~ReconnectExhausted)
            => /\ AllHeardOnce(Disconnected)
               /\ ScheduleStep]_vars
    /\ (timers # EmptyBag) ~> (timers = EmptyBag)

\* C23: the reply type a call waits for depends on the action of its
\* command only: backtest_result for run_backtest, strategy_parsed for
\* parse_strategy, conversation_question for start_conversation and for
\* answer_question, an entry of the table for every listed action, and
\* action + "_response" for an action the table does not list.
C23_ReplyTypeByAction ==
    \A c \in CallIds :
        LET a == request.action
            t == calls[c].type
        IN calls[c].state # "not_connected" =>
           /\ a = "run_backtest" => t = Literal("backtest_result")
           /\ a = "parse_strategy" => t = Literal("strategy_parsed")
           /\ a \in {"start_conversation", "answer_question"}
                 => t = Literal("conversation_question")
           /\ a \in Listed => t.suffix = ""
           /\ a \notin Listed => t = [name |-> a, suffix |-> "_response"]
           /\ \A b \in CallIds :
                 calls[b].state # "not_connected" => calls[b].type = t

\* C23 witness: two calls of a listed command, the second one issued with
\* the first still pending, wait for the same type.
C23_Witness ==
    /\ request.action = "run_backtest"
    /\ Len(calls) = 2
    /\ \A c \in CallIds : Pending(c)

\* The window of the page's command: its requestTimeout, or the default of
\* its action.
ConfiguredWindow ==
    IF request.requestTimeout # 0 THEN request.requestTimeout
    ELSE IF request.action = "run_backtest" THEN 300000
    ELSE IF request.action = "evolve_strategy" THEN 180000
    ELSE IF request.action = "parse_strategy" THEN 120000
    ELSE 60000

C28_SettledByOpenOnly ==
    /\ [][(awaited.state = "pending" /\ awaited'.state = "resolved")
            => /\ awaited.socket \in Live
               /\ OpenStep(awaited.socket)]_vars
    /\ [][awaited'.state = "rejected"
            => \/ awaited.state = "rejected"
               \/ /\ chan' = chan
                  /\ ws' = ws
                  /\ awaited'.socket = NullSocket]_vars
    /\ [][(CloseStep \/ HeardStep(Error))
            => awaited'.state = awaited.state]_vars
    /\ [][(awaited.state = "pending" /\ awaited.socket = NullSocket)
            => \/ awaited' = awaited
               \/ awaited'.socket # NullSocket
               \/ awaited'.state = "rejected" /\ chan' = chan]_vars
    /\ [][(/\ CloseStep
           /\ awaited.state = "pending"
           /\ awaited'.socket # awaited.socket
           /\ awaited'.socket = NullSocket
           /\ ~ReconnectExhausted)
            => ScheduleStep]_vars

\* C28 witness: the socket of the page's connect() has closed without
\* opening and the connector is connected through a reconnection, with the
\* promise still pending; no callback is registered.
C28_Witness ==
    /\ awaited = [socket |-> NullSocket, state |-> "pending"]
    /\ Registered = 0
    /\ scheduled = 0
    /\ reconnectAttempts = 0
    /\ connected
    /\ ws \in Live
    /\ chan[ws] = "open"

ServiceCallIds == 1..Len(serviceCalls)

\* A step in which the service handles the answer to command w.
ServiceReplyStep(w) ==
    /\ w \in serviceWire
    /\ serviceWire' = serviceWire \ {w}
    /\ serviceChan' = serviceChan
    /\ Len(serviceCalls') = Len(serviceCalls)

\* A step in which the request timer of sendAndWait call c runs.
ServiceTimeoutStep(c) ==
    /\ c \in ServiceCallIds
    /\ Len(serviceCalls') = Len(serviceCalls)
    /\ serviceCalls[c].timer
    /\ ~serviceCalls'[c].timer
    /\ serviceCalls'[c].rejects = serviceCalls[c].rejects + 1

\* C29: the identifiers of sendAndWait calls increase strictly in the order
\* of the calls; a frame carrying request_id r resolves the pending call
\* issued with r, with that frame, and changes no other call, however many
\* calls are outstanding; and the entry of a call is in pendingRequests
\* exactly while its timer is armed, so it is gone once the call has been
\* settled by its reply or by its timer.
C29_CorrelatedById ==
    /\ [](\A c, b \in ServiceCallIds :
            c < b => serviceCalls[c].id < serviceCalls[b].id)
    /\ [](service.pendingRequests
            = {serviceCalls[c].id : c \in {b \in ServiceCallIds : serviceCalls[b].timer}})
    /\ [](\A c \in ServiceCallIds :
            serviceCalls[c].state \in {"resolved", "timeout"}
            => /\ serviceCalls[c].id \notin service.pendingRequests
               /\ serviceCalls[c].state = "resolved"
                     => serviceCalls[c].result = serviceCalls[c].id)
    /\ [][\A w \in serviceWire : ServiceReplyStep(w) =>
            \A c \in ServiceCallIds :
                IF serviceCalls[c].id = w.id /\ serviceCalls[c].timer
                THEN /\ serviceCalls'[c].resolves = serviceCalls[c].resolves + 1
                     /\ serviceCalls[c].state = "pending"
                           => serviceCalls'[c].state = "resolved"
                     /\ service'.pendingRequests
                           = service.pendingRequests \ {w.id}
                ELSE serviceCalls'[c] = serviceCalls[c]]_vars
    /\ [][\A c \in ServiceCallIds : ServiceTimeoutStep(c) =>
            service'.pendingRequests
               = service.pendingRequests \ {serviceCalls[c].id}]_vars

\* C29 witness: two calls were outstanding and the reply to the second one
\* has resolved it while the first one is still pending.
C29_Witness ==
    /\ Len(serviceCalls) >= 2
    /\ serviceCalls[1].state = "pending"
    /\ serviceCalls[1].sent = "written"
    /\ serviceCalls[2].state = "resolved"
    /\ service.pendingRequests = {serviceCalls[1].id}

\* C30: a sendAndWait call issued while the service is not connected is
\* not rejected at once: send() writes nothing, the request is registered
\* in pendingRequests with its timer armed, and the call is settled only
\* by that timer, with the request-timeout rejection, which removes its
\* entry.
C30_UnsentWaitsForTimeout ==
    /\ [][(Len(serviceCalls') = Len(serviceCalls) + 1 /\ ~service.connected)
            => LET call == serviceCalls'[Len(serviceCalls')]
               IN /\ call.sent = "false"
                  /\ call.state = "pending"
                  /\ call.timer
                  /\ call.id \in service'.pendingRequests
                  /\ serviceWire' = serviceWire]_vars
    /\ [][\A c \in ServiceCallIds :
            (/\ serviceCalls[c].sent = "false"
             /\ serviceCalls'[c] # serviceCalls[c])
            => /\ ServiceTimeoutStep(c)
               /\ serviceCalls[c].state = "pending"
               /\ serviceCalls'[c].state = "timeout"
               /\ serviceCalls[c].id \notin service'.pendingRequests]_vars

\* C30 witness: a call issued while the service was not connected has been
\* rejected by its timer, after the service had connected.
C30_Witness ==
    \E c \in ServiceCallIds :
        /\ serviceCalls[c].sent = "false"
        /\ serviceCalls[c].state = "timeout"
        /\ service.connected

\* C25: the timer of a call removes from the table only the waiter of that
\* call, never the waiter a later call has registered for the same type;
\* and a call whose send() fails removes no waiter of another type.
C25_RemovesOwnWaiterOnly ==
    /\ [][\A c, b \in CallIds :
            (/\ TimeoutStep(c)
             /\ b > c
             /\ messageHandlers[calls[b].type] = Waiter(b))
            => messageHandlers'[calls[b].type] = Waiter(b)]_vars
    /\ [][(IssueStep /\ calls'[Len(calls')].state = "send_failed")
            => \A t \in Types \ {calls'[Len(calls')].type} :
                  messageHandlers'[t] = messageHandlers[t]]_vars

C27_ConnectedMeansOpen == connected => (ws \in Live /\ chan[ws] = "open")

TypeOK ==
    /\ ws \in {NullSocket, ClosedSocket} \cup Live
    /\ Len(chan) <= MaxChannels
    /\ \A k \in Live : chan[k] \in {"connecting", "open", "closing"}
    /\ connected \in BOOLEAN
    /\ reconnectAttempts \in Nat
    /\ BagCardinality(timers) <= MaxTimers
    /\ \A d \in BagToSet(timers) :
           d \in {Delay(n) : n \in 1..maxReconnectAttempts}
    /\ Registered <= MaxListeners
    /\ Len(errorLog) <= MaxLogged
    /\ failed \in BOOLEAN
    /\ Len(calls) <= MaxCalls
    /\ now \in 0..(MaxTicks * Quantum)
    /\ awaited.socket \in {NullSocket} \cup Live
    /\ awaited.state \in {"none", "pending", "resolved", "rejected"}
    /\ request \in Requests
    /\ service.ws \in {NullSocket, ClosedSocket} \cup ServiceLive
    /\ service.connected \in BOOLEAN
    /\ service.requestId = Len(serviceCalls)
    /\ service.pendingRequests \subseteq 1..service.requestId
    /\ Len(serviceChan) <= MaxChannels
    /\ BagCardinality(serviceTimers) <= MaxTimers
    /\ Len(serviceCalls) <= MaxCalls
====
